---- MODULE Spec2Model ----
(***************************************************************************)
(* Model of bmp.py, the Black Magic Probe helper script.                   *)
(*                                                                         *)
(* The script is one thread of control that talks to an external debugger  *)
(* (GDB in machine-interface mode) through pygdbmi.  The debugger is a     *)
(* separate OS process: it takes the commands written to it one after the  *)
(* other and streams reply messages back.  A read of the reply stream      *)
(* (GdbController.get_gdb_response, which GdbController.write also calls   *)
(* after writing) blocks until at least one message is available and then  *)
(* returns everything that has arrived, or raises after TIMEOUT seconds    *)
(* when nothing arrived.                                                   *)
(*                                                                         *)
(* Strings the script inspects character by character (target payloads,    *)
(* serial numbers, bus locations, device paths, numeric fields) are        *)
(* sequences of one-character strings.                                     *)
(***************************************************************************)
EXTENDS Naturals, Integers, Sequences, FiniteSets, TLC

\* ------------------------------------------------------------------ bounds
\* number of messages the debugger may have emitted and the script not read
MaxPending == 2
\* number of 'target' and 'output' messages the debugger emits during one run
MaxStreamMsgs == 3

\* --------------------------------------------------------------- constants
VID == 7504        \* 0x1D50
PID1 == 24600      \* 0x6018
PID2 == 24599      \* 0x6017
TIMEOUT == 100

None == "None"

\* ------------------------------------------------------ character classes
Digits == {"0", "1", "2", "3", "4", "5", "6", "7", "8", "9"}
HexUpper == Digits \cup {"A", "B", "C", "D", "E", "F"}
\* Python's \s for str patterns (the ASCII part)
Whitespace == {" ", "\t", "\n", "\r", "\f"}
\* '.' without DOTALL: any character but a line feed
IsDot(c) == c # "\n"

Last(s) == s[Len(s)]

\* Python's `sub in s` on strings
IsSubstring(sub, s) ==
    \E i \in 0..(Len(s) - Len(sub)) :
        \A k \in 1..Len(sub) : s[i + k] = sub[k]

\* ------------------------------------------------------------ serial ports
\* a pyserial ListPortInfo: the fields the script reads
GdbPort == [vid |-> VID, pid |-> PID1, interface |-> "Black Magic GDB Server",
            device |-> <<"/dev/ttyACM", "0">>,
            location |-> <<"1", "-", "1", ":", "1", ".", "0">>,
            serial_number |-> <<"7", "B", "A", "1">>]
UartPort == [vid |-> VID, pid |-> PID1, interface |-> "Black Magic UART Port",
             device |-> <<"/dev/ttyACM", "1">>,
             location |-> <<"1", "-", "1", ":", "1", ".", "2">>,
             serial_number |-> <<"7", "B", "A", "1">>]
\* a second probe, macOS naming, older product id, no interface label
GdbPort2 == [vid |-> VID, pid |-> PID2, interface |-> None,
             device |-> <<"/dev/cu.usbmodem", "E", "2", "1">>,
             location |-> <<"2", "-", "3">>,
             serial_number |-> <<"E", "2">>]
\* an unrelated serial adapter
OtherPort == [vid |-> 1027, pid |-> 24577, interface |-> "FT232R USB UART",
              device |-> <<"/dev/ttyUSB", "0">>,
              location |-> <<"1", "-", "2">>,
              serial_number |-> <<"A", "1">>]

\* a probe as an OS reports it that gives no interface label and no bus
\* location: pyserial leaves both None when the information is not
\* available.  The empty location stands for None and for ''
ComPort == [vid |-> VID, pid |-> PID1, interface |-> None,
            device |-> <<"COM", "3">>,
            location |-> <<>>,
            serial_number |-> <<"7", "B", "A", "1">>]

\* what serial.tools.list_ports.comports() may return in a run
PortLists == { <<>>, <<GdbPort>>, <<ComPort>>,
               <<OtherPort, UartPort, GdbPort2, GdbPort>> }

\* re.fullmatch(r'/dev/cu\.usbmodem([A-F0-9]*)1', p.device): the device path
\* is kept as its directory-and-name prefix followed by single characters
IsFirstSubInterfacePath(device) ==
    /\ Len(device) >= 2
    /\ device[1] = "/dev/cu.usbmodem"
    /\ Last(device) = "1"
    /\ \A i \in 2..(Len(device) - 1) : device[i] \in HexUpper

IsProbe(p) == p.vid = VID /\ p.pid \in {PID1, PID2}

\* p.location[-1] raises on None (TypeError) and on '' (IndexError); the
\* `or` chain gets there only when label and path did not match
LocationRaises(p) ==
    /\ p.interface # "Black Magic GDB Server"
    /\ ~IsFirstSubInterfacePath(p.device)
    /\ p.location = <<>>

IsGdbInterface(p) ==
    \/ p.interface = "Black Magic GDB Server"
    \/ IsFirstSubInterfacePath(p.device)
    \/ (p.location # <<>> /\ Last(p.location) = "0")

\* whether the loop of detect_probes() ends in an exception at line 41
detect_probes_raises(ports) ==
    \E i \in 1..Len(ports) : IsProbe(ports[i]) /\ LocationRaises(ports[i])

\* detect_probes(): both lists in enumeration order
detect_probes(ports) ==
    [GDBs  |-> SelectSeq(ports, LAMBDA p : IsProbe(p) /\ IsGdbInterface(p)),
     UARTs |-> SelectSeq(ports, LAMBDA p : IsProbe(p) /\ ~IsGdbInterface(p))]

\* An optional value is a sequence of length 0 (Python's None) or 1.
Absent == <<>>
Present(v) == <<v>>

\* mutation: the serial number has to equal snr
RECURSIVE search_serial_Exact(_, _)
search_serial_Exact(snr, l) ==
    IF l = <<>> THEN Absent
    ELSE IF snr = Head(l).serial_number THEN Present(Head(l).device)
    ELSE search_serial_Exact(snr, Tail(l))

\* search_serial(snr, l): device of the first port whose serial number
\* contains snr, None when the loop falls through
RECURSIVE search_serial(_, _)
search_serial(snr, l) ==
    IF l = <<>> THEN Absent
    ELSE IF IsSubstring(snr, Head(l).serial_number) THEN Present(Head(l).device)
    ELSE search_serial(snr, Tail(l))

\* ------------------------------------------------ debugger reply messages
\* a pygdbmi message: its type tag, the status keyword of a result record
\* and the payload
ResultMsg(status) == [type |-> "result", message |-> status, payload |-> <<>>]
ConsoleMsg == [type |-> "console", message |-> None, payload |-> <<"o", "k">>]
TargetMsg(payload) == [type |-> "target", message |-> None, payload |-> payload]
OutputMsg(payload) == [type |-> "output", message |-> None, payload |-> payload]

\* status keywords of a result record
Statuses == {"done", "connected", "error"}

\* index of the first position >= i of s whose character is not in set
RECURSIVE SkipWhile(_, _, _)
SkipWhile(s, i, set) ==
    IF i <= Len(s) /\ s[i] \in set THEN SkipWhile(s, i + 1, set) ELSE i

\* re.fullmatch(r"\s*(\d)+\s*(.*)\\n", payload): leading whitespace, one or
\* more digits, whitespace, the description, then a backslash and an 'n'.
\* Every quantifier is greedy and no character of a later part can be taken
\* by an earlier one, so the greedy split is the match when there is one.
target_match(payload) ==
    LET a == SkipWhile(payload, 1, Whitespace)
        b == SkipWhile(payload, a, Digits)
        c == SkipWhile(payload, b, Whitespace)
        n == Len(payload)
        ok == /\ b > a
              /\ n >= c + 1
              /\ payload[n - 1] = "\\"
              /\ payload[n] = "n"
              /\ \A i \in c..(n - 2) : IsDot(payload[i])
    IN  [matched |-> ok,
         group2 |-> IF ok THEN SubSeq(payload, c, n - 2) ELSE <<>>]

\* mutation: a target message that does not match still adds an entry
RECURSIVE detect_targets_batch_KeepsUnmatched(_, _)
detect_targets_batch_KeepsUnmatched(res, targets) ==
    IF res = <<>> THEN [status |-> None, targets |-> targets]
    ELSE LET msg == Head(res) IN
         IF msg.type = "target"
         THEN detect_targets_batch_KeepsUnmatched(Tail(res),
                  Append(targets, target_match(msg.payload).group2))
         ELSE IF msg.type = "result"
         THEN [status |-> msg.message, targets |-> targets]
         ELSE detect_targets_batch_KeepsUnmatched(Tail(res), targets)

\* the loop body of detect_targets over one batch: res is what is left of
\* the batch, targets the list so far.  status is None when the batch ended
\* without a result record, else the status of the record that ended it.
RECURSIVE detect_targets_batch(_, _)
detect_targets_batch(res, targets) ==
    IF res = <<>> THEN [status |-> None, targets |-> targets]
    ELSE LET msg == Head(res) IN
         IF msg.type = "target"
         THEN LET m == target_match(msg.payload) IN
              detect_targets_batch(Tail(res),
                  IF m.matched THEN Append(targets, m.group2) ELSE targets)
         ELSE IF msg.type = "result"
         THEN [status |-> msg.message, targets |-> targets]
         ELSE detect_targets_batch(Tail(res), targets)

\* mutation: the status is compared with 'done' whatever the caller expects
RECURSIVE wait_for_result_batch_ExpectsDone(_, _)
wait_for_result_batch_ExpectsDone(res, expected_result) ==
    IF res = <<>> THEN "again"
    ELSE IF Head(res).type = "result"
    THEN (IF Head(res).message = "done" THEN "True" ELSE "False")
    ELSE wait_for_result_batch_ExpectsDone(Tail(res), expected_result)

\* the loop body of gdb_write_and_wait_for_result over one batch: "again"
\* when the batch holds no result record, else whether the first one has
\* the expected status
RECURSIVE wait_for_result_batch(_, _)
wait_for_result_batch(res, expected_result) ==
    IF res = <<>> THEN "again"
    ELSE IF Head(res).type = "result"
    THEN (IF Head(res).message = expected_result THEN "True" ELSE "False")
    ELSE wait_for_result_batch(Tail(res), expected_result)

\* ------------------------------------------------------ download progress
\* the five named groups of the progress pattern, in pattern order
Keys == <<"section", "section-sent", "section-size", "total-sent", "total-size">>

\* The payload of an 'output' message, lexed: the text before the brace and
\* the key="value" fields.  The fields of a payload are a subsequence of
\* Keys, in that order, as the debugger prints them, and no value holds a
\* quote; on such payloads the lazy groups capture exactly the values.
Payload(head, fields) == [head |-> head, fields |-> fields]
Field(k, v) == [key |-> k, val |-> v]

\* re.fullmatch of the progress pattern: every group is optional, so any
\* such payload that starts with +download,{ matches; group k is Absent
\* (None) when its key is not in the payload
download_match(payload) ==
    LET f == payload.fields
        ok == payload.head = "+download"
    IN  [matched |-> ok,
         group |-> [k \in 1..5 |->
                      IF ok /\ \E i \in 1..Len(f) : f[i].key = Keys[k]
                      THEN Present(f[CHOOSE i \in 1..Len(f) : f[i].key = Keys[k]].val)
                      ELSE Absent]]

DigitVal(c) == CHOOSE n \in 0..9 : <<"0", "1", "2", "3", "4", "5", "6", "7", "8", "9">>[n + 1] = c

\* int(x) raises on None (TypeError) and on a string that is not a decimal
\* number (ValueError)
IntRaises(g) == g = Absent \/ g[1] = <<>> \/ \E i \in 1..Len(g[1]) : g[1][i] \notin Digits

RECURSIVE IntOfDigits(_)
IntOfDigits(s) ==
    IF s = <<>> THEN 0
    ELSE IntOfDigits(SubSeq(s, 1, Len(s) - 1)) * 10 + DigitVal(Last(s))

int(g) == IntOfDigits(g[1])

\* ProgressBar(): not started, no maximum yet
NewProgressBar == [start_time |-> FALSE, maxval |-> 0, currval |-> 0, finished |-> FALSE]
\* ProgressBar(widgets=..., maxval=n).start()
StartedProgressBar(n) == [start_time |-> TRUE, maxval |-> n, currval |-> 0, finished |-> FALSE]
\* pbar.finish()
Finish(pbar) == [pbar EXCEPT !.finished = TRUE, !.currval = pbar.maxval]
\* pbar.update(v) raises before start() and for a value outside 0..maxval
UpdateRaises(pbar, v) == ~pbar.start_time \/ v > pbar.maxval

Line(kind, arg) == [kind |-> kind, arg |-> arg]

\* the local state of the flash branch; out is what it printed, err what
\* the progress bars drew on the error stream: "start" and "finish"
InitialDownload ==
    [downloading |-> TRUE, first |-> TRUE, current_sec |-> Absent,
     pbar |-> NewProgressBar, out |-> <<>>, err |-> <<>>, raised |-> 0]

\* mutation: a started bar is left as it is
FinishIfStarted_Never(d) == d
\* lines 192-193 and 205-206: if pbar.start_time: pbar.finish()
FinishIfStarted(d) ==
    IF d.pbar.start_time
    THEN [d EXCEPT !.pbar = Finish(@), !.err = Append(@, "finish")]
    ELSE d

\* one matching progress event, lines 201-213; d is the state before it
progress_event(d, m) ==
    LET g == m.group
        \* if first: the total-size banner
        r1 == d.first /\ IntRaises(g[5])
        d1 == IF d.first
              THEN [d EXCEPT !.first = FALSE,
                             !.out = IF r1 THEN @ ELSE Append(@, Line("total", g[5][1]))]
              ELSE d
        \* if m.group(1) != current_sec: close the bar, start the next one
        change == g[1] # d1.current_sec
        r2 == change /\ IntRaises(g[3])
        closed == IF change THEN FinishIfStarted(d1) ELSE d1
        d2 == IF ~change \/ r2 THEN closed
              ELSE [closed EXCEPT !.pbar = StartedProgressBar(int(g[3])),
                              !.err = Append(@, "start"),
                              !.current_sec = g[1],
                              !.out = Append(@, Line("section",
                                         IF g[1] = Absent THEN <<"None">> ELSE g[1][1]))]
        \* if m.group(2): pbar.update(int(m.group(2)))
        upd == g[2] # Absent /\ g[2][1] # <<>>
        r3 == upd /\ (IntRaises(g[2]) \/ UpdateRaises(d2.pbar, int(g[2])))
        d3 == IF upd /\ ~r3 THEN [d2 EXCEPT !.pbar.currval = int(g[2])] ELSE d2
    IN  IF r1 THEN [d1 EXCEPT !.raised = 203]
        ELSE IF r2 THEN [d2 EXCEPT !.raised = 207]
        ELSE IF r3 THEN [d2 EXCEPT !.raised = 213]
        ELSE d3

\* mutation: the for loop goes on after the result record
RECURSIVE download_batch_NoBreak(_, _)
download_batch_NoBreak(res, d) ==
    IF res = <<>> \/ d.raised # 0 THEN d
    ELSE LET msg == Head(res) IN
         IF msg.type = "result"
         THEN IF msg.message # "done"
              THEN [d EXCEPT !.downloading = FALSE, !.raised = 191]
              ELSE download_batch_NoBreak(Tail(res),
                       [FinishIfStarted(d) EXCEPT !.downloading = FALSE,
                             !.out = Append(@, Line("finished", Absent))])
         ELSE IF msg.type = "output"
         THEN LET m == download_match(msg.payload) IN
              download_batch_NoBreak(Tail(res),
                                     IF m.matched THEN progress_event(d, m) ELSE d)
         ELSE download_batch_NoBreak(Tail(res), d)

\* the for loop of the flash branch over one batch, lines 188-213
RECURSIVE download_batch(_, _)
download_batch(res, d) ==
    IF res = <<>> \/ d.raised # 0 THEN d
    ELSE LET msg == Head(res) IN
         IF msg.type = "result"
         THEN IF msg.message # "done"
              THEN [d EXCEPT !.downloading = FALSE, !.raised = 191]
              ELSE [FinishIfStarted(d) EXCEPT !.downloading = FALSE,
                             !.out = Append(@, Line("finished", Absent))]
         ELSE IF msg.type = "output"
         THEN LET m == download_match(msg.payload) IN
              download_batch(Tail(res), IF m.matched THEN progress_event(d, m) ELSE d)
         ELSE download_batch(Tail(res), d)

\* ---------------------------------------------------------------- commands
CmdConnect == "-target-select extended-remote"
CmdSrst == "monitor connect_srst enable"
CmdTpwr == "monitor tpwr enable"
CmdSwdScan == "monitor swdp_scan"
CmdJtagScan == "monitor jtag_scan"
CmdAttach == "-target-attach"
CmdReset == "monitor hard_srst"
CmdErase == "-target-flash-erase"
CmdDownload == "-target-download"
CmdCompare == "compare-sections"
CmdKill == "kill"

\* ------------------------------------------------------------------ inputs
Actions == {"list", "flash", "erase", "debug", "term", "reset"}

SerialArgs == {Absent, Present(<<"B", "A">>), Present(<<"Z">>)}
PortArgs == {Absent, Present(<<"/dev/ttyS", "9">>)}

\* the argparse namespace: the options the control flow depends on
ArgsSet == [jtag : BOOLEAN, swd : BOOLEAN, connect_srst : BOOLEAN, tpwr : BOOLEAN,
            serial : SerialArgs, port : PortArgs, action : Actions]

\* the runs that are explored.  The options that shape the debugger session
\* (transport, connect_srst, tpwr) take every combination when the probe is
\* auto-detected among all ports; the ways to name the port (--serial, --port,
\* the ports present) take every combination when the session options are
\* left at their defaults and for the actions that start no script; and every
\* combination of options that the assertions of lines 90-91 reject is there
AllPorts == <<OtherPort, UartPort, GdbPort2, GdbPort>>
DefaultSession(a) == ~a.jtag /\ ~a.swd /\ ~a.connect_srst /\ ~a.tpwr
AutoDetect(a) == a.serial = Absent /\ a.port = Absent
Rejected(a) == (a.swd /\ a.jtag) \/ (a.serial # Absent /\ a.port # Absent)
Inputs ==
    { in \in ArgsSet \X PortLists :
        \/ Rejected(in[1])
        \/ in[1].action \in {"debug", "term"}
        \/ DefaultSession(in[1])
        \/ AutoDetect(in[1]) /\ in[2] = AllPorts }

\* payloads of the 'target' messages the debugger may emit
ScanPayloads ==
    { <<"1", " ", " ", "S", "T", "M", "3", "2", "F", "4", "\\", "n">>,
      <<"2", " ", " ", "S", "T", "M", "3", "2", "F", "1", "\\", "n">>,
      <<"N", "o", " ", "u", "s", "a", "b", "l", "e", "\\", "n">> }

\* payloads of 'output' messages the debugger may emit during a download
ProgressPayloads ==
    { Payload("+download", <<Field("section-sent", <<"4">>),
                             Field("total-size", <<"1", "2">>)>>),
      Payload("+download", <<Field("section", <<".text">>), Field("section-sent", <<"4">>),
                             Field("section-size", <<"8">>), Field("total-sent", <<"4">>),
                             Field("total-size", <<"1", "2">>)>>),
      Payload("+download", <<Field("section", <<".data">>), Field("section-size", <<"4">>),
                             Field("total-size", <<"1", "2">>)>>),
      Payload("+download", <<Field("section", <<".text">>), Field("section-sent", <<"8">>)>>),
      Payload("=library-loaded", <<>>) }

\* ------------------------------------------------------------------- state
VARIABLES
    args,        \* the parsed command line
    comports,    \* what the OS enumerates
    enumerated,  \* whether detect_probes() has run
    g, u,        \* the GDB and UART interface lists
    port,        \* the selected device path, Absent until chosen
    launched,    \* external programs started, in order
    pc,          \* where the script is
    exit_code,   \* process exit code, -1 while running
    raised,      \* source line of the uncaught exception, 0 when none, -1 for a
                 \* GdbTimeoutError raised inside pygdbmi
    written,     \* commands written to the debugger, in order
    inbox,       \* debugger: commands received and not yet answered
    pending,     \* debugger output the script has not read yet
    nstream,     \* debugger: 'target' and 'output' messages emitted so far
    ret,         \* value of the last gdb_write_and_wait_for_result call
    dt_targets,  \* detect_targets: its local list
    scan_stream, \* the target and result messages detect_targets has taken
    targets,     \* the script's target list, Absent until detect_targets returns
    stdout,      \* target lines printed
    d            \* local state of the flash branch

vars == <<args, comports, enumerated, g, u, port, launched, pc, exit_code, raised,
          written, inbox, pending, nstream, ret, dt_targets,
          scan_stream, targets, stdout, d>>

probe_vars == <<comports, enumerated, g, u, port, launched>>
gdb_vars == <<inbox, pending, nstream>>
scan_vars == <<dt_targets, scan_stream, targets, stdout>>

Init ==
    /\ \E in \in Inputs : args = in[1] /\ comports = in[2]
    /\ enumerated = FALSE
    /\ g = <<>>
    /\ u = <<>>
    /\ port = Absent
    /\ launched = <<>>
    /\ pc = "start"
    /\ exit_code = -1
    /\ raised = 0
    /\ written = <<>>
    /\ inbox = <<>>
    /\ pending = <<>>
    /\ nstream = 0
    /\ ret = None
    /\ dt_targets = <<>>
    /\ scan_stream = <<>>
    /\ targets = Absent
    /\ stdout = <<>>
    /\ d = InitialDownload

\* mutation: the exception is swallowed and the process ends normally
Raise_ExitZero(line) == pc' = "exit" /\ exit_code' = 0 /\ raised' = line
\* an uncaught exception at the given source line ends the process
Raise(line) == pc' = "exit" /\ exit_code' = 1 /\ raised' = line
\* sys.exit(0), or the end of the script
Exit0 == pc' = "exit" /\ exit_code' = 0 /\ raised' = 0
Goto(l) == pc' = l /\ UNCHANGED <<exit_code, raised>>
\* go on at position l, the end of the run when l is "exit"
Continue(l) == IF l = "exit" THEN Exit0 ELSE Goto(l)
\* mutation: the value is not asserted
Checked_Unasserted(value, line, l) == Continue(l)
\* `assert value` at the given line, then on to position l
Checked(value, line, l) == IF value THEN Continue(l) ELSE Raise(line)

\* ----------------------------------------------------------------- startup
\* what os.system() may return for the external program; the script drops it
ExitStatuses == {0, 1}
\* a program started by the script: status is what os.system() returned, -1
\* for the machine-interface debugger, which runs alongside the script
Launch(prog, argv, status) == [prog |-> prog, argv |-> argv, status |-> status]

\* lines 89-91: the two assertions on the parsed arguments
\* mutation: only the transport flags are checked
ArgsConflict_TransportOnly == IF args.swd /\ args.jtag THEN 90 ELSE 0

\* lines 90-91: the line of the first failing assertion, 0 when both hold
ArgsConflict ==
    IF args.swd /\ args.jtag THEN 90
    ELSE IF args.serial # Absent /\ args.port # Absent THEN 91
    ELSE 0

CheckArgs ==
    /\ pc = "start"
    /\ IF ArgsConflict # 0 THEN Raise(ArgsConflict) ELSE Goto("detect")
    /\ UNCHANGED <<args, probe_vars, written, gdb_vars, ret, scan_vars, d>>

\* lines 92-93: enumerate the serial ports, at least one GDB interface
DetectProbes ==
    /\ pc = "detect"
    /\ enumerated' = TRUE
    /\ IF detect_probes_raises(comports)
       THEN Raise(41) /\ UNCHANGED <<g, u>>
       ELSE /\ g' = detect_probes(comports).GDBs
            /\ u' = detect_probes(comports).UARTs
            /\ IF Len(g') > 0 THEN Goto("select") ELSE Raise(93)
    /\ UNCHANGED <<args, comports, port, launched, written, gdb_vars, ret, scan_vars, d>>

\* lines 96-104: terminal mode
Term ==
    /\ pc = "select"
    /\ args.action = "term"
    /\ IF u = <<>>
       THEN Raise(97) /\ UNCHANGED <<port, launched>>
       ELSE LET p == IF args.port # Absent THEN args.port
                     ELSE IF args.serial # Absent THEN search_serial(args.serial[1], u)
                     ELSE Present(u[1].device)
            IN  /\ port' = p
                /\ IF p = Absent
                   THEN Raise(102) /\ UNCHANGED launched
                   ELSE /\ \E st \in ExitStatuses :
                               launched' = Append(launched, Launch("term", <<p[1]>>, st))
                        /\ Exit0
    /\ UNCHANGED <<args, comports, enumerated, g, u, written, gdb_vars, ret, scan_vars, d>>

\* lines 106-124: every other mode selects among the GDB interfaces
SelectPort ==
    /\ pc = "select"
    /\ args.action # "term"
    /\ LET p == IF args.port # Absent THEN args.port
                ELSE IF args.serial # Absent THEN search_serial(args.serial[1], g)
                ELSE Present(g[1].device)
       IN  /\ port' = p
           /\ IF p = Absent THEN Raise(120)
              ELSE IF args.action = "debug" THEN Goto("debug")
              ELSE Goto("gdbmi")
    /\ UNCHANGED <<args, comports, enumerated, g, u, launched, written, gdb_vars, ret,
                   scan_vars, d>>

\* mutation: the scan is SWD whatever the transport option
gdb_args_SwdOnly ==
    <<<<"target extended-remote">> \o port[1]>>
    \o (IF args.tpwr THEN <<<<CmdTpwr>>>> ELSE <<>>)
    \o (IF args.connect_srst THEN <<<<CmdSrst>>>> ELSE <<>>)
    \o <<<<CmdSwdScan>>>>
    \o <<<<"attach">>>>

\* the -ex options of the interactive debugger, lines 128-137
gdb_args ==
    <<<<"target extended-remote">> \o port[1]>>
    \o (IF args.tpwr THEN <<<<CmdTpwr>>>> ELSE <<>>)
    \o (IF args.connect_srst THEN <<<<CmdSrst>>>> ELSE <<>>)
    \o (IF args.jtag THEN <<<<CmdJtagScan>>>> ELSE <<<<CmdSwdScan>>>>)
    \o <<<<"attach">>>>

\* lines 127-139: debug mode hands over to an interactive debugger
Debug ==
    /\ pc = "debug"
    /\ \E st \in ExitStatuses : launched' = Append(launched, Launch("gdb", gdb_args, st))
    /\ Exit0
    /\ UNCHANGED <<args, comports, enumerated, g, u, port, written, gdb_vars, ret,
                   scan_vars, d>>

\* line 142: start the debugger in machine-interface mode
OpenGdbmi ==
    /\ pc = "gdbmi"
    /\ launched' = Append(launched, Launch("gdbmi", <<>>, -1))
    /\ Goto("connect")
    /\ UNCHANGED <<args, comports, enumerated, g, u, port, written, gdb_vars, ret,
                   scan_vars, d>>

\* ------------------------------------------------------------ the debugger
\* The debugger answers the commands in the order it received them: for the
\* command at the head of its inbox it emits stream messages and then one
\* result record.  Its output waits in the pipe until the script reads.
GdbConsole ==
    /\ pc # "exit"
    /\ inbox # <<>>
    /\ Len(pending) < MaxPending
    /\ pending' = Append(pending, ConsoleMsg)
    /\ UNCHANGED <<args, probe_vars, pc, exit_code, raised, written, inbox, nstream, ret, scan_vars, d>>

\* target-stream output comes with a scan and with an attach
GdbTarget ==
    /\ pc # "exit"
    /\ inbox # <<>>
    /\ Head(inbox) \in {CmdSwdScan, CmdJtagScan, CmdAttach}
    /\ Len(pending) < MaxPending
    /\ nstream < MaxStreamMsgs
    /\ \E p \in ScanPayloads : pending' = Append(pending, TargetMsg(p))
    /\ nstream' = nstream + 1
    /\ UNCHANGED <<args, probe_vars, pc, exit_code, raised, written, inbox, ret, scan_vars, d>>

\* progress output comes with the download; what the debugger still flushes
\* behind the result record lies in the pipe until the script reads
GdbProgress ==
    /\ pc = "download_rd"
    /\ inbox # <<>> => Head(inbox) = CmdDownload
    /\ Len(pending) < MaxPending
    /\ nstream < MaxStreamMsgs
    /\ \E p \in ProgressPayloads : pending' = Append(pending, OutputMsg(p))
    /\ nstream' = nstream + 1
    /\ UNCHANGED <<args, probe_vars, pc, exit_code, raised, written, inbox, ret, scan_vars, d>>

GdbResult ==
    /\ pc # "exit"
    /\ inbox # <<>>
    /\ Len(pending) < MaxPending
    /\ \E st \in Statuses : pending' = Append(pending, ResultMsg(st))
    /\ inbox' = Tail(inbox)
    /\ UNCHANGED <<args, probe_vars, pc, exit_code, raised, written, nstream,
                   ret, scan_vars, d>>

\* ------------------------------------------------------------ pygdbmi calls
\* the writing half of GdbController.write(cmd)
Write(cmd) ==
    /\ written' = Append(written, cmd)
    /\ inbox' = Append(inbox, cmd)
    /\ UNCHANGED <<pending, nstream>>

\* GdbController.get_gdb_response(): blocks until output is there and takes
\* all of it
Read ==
    /\ pending # <<>>
    /\ pending' = <<>>
    /\ UNCHANGED <<written, inbox, nstream>>

\* ... or raises GdbTimeoutError when nothing came within TIMEOUT seconds
ReadPcs == {"connect_rd", "srst_rd", "tpwr_rd", "scan_rd", "attach_rd", "reset_rd",
            "erase_rd", "download_rd", "compare_rd", "kill_rd"}

Timeout ==
    /\ pc \in ReadPcs
    /\ pending = <<>>
    /\ Raise(-1)
    /\ UNCHANGED <<args, probe_vars, written, gdb_vars, ret, scan_vars, d>>

\* gdb_write_and_wait_for_result, line 72: the write
CallWrite(at, cmd) ==
    /\ pc = at
    /\ Write(cmd)
    /\ ret' = None
    /\ Goto(at \o "_rd")
    /\ UNCHANGED <<args, probe_vars, scan_vars, d>>

\* gdb_write_and_wait_for_result, lines 73-85, one pass of the while loop:
\* a batch without a result record is read over, the first result record
\* ends the call, and the caller asserts the returned value
CallWait(at, expected_result, line, next) ==
    /\ pc = at
    /\ Read
    /\ LET r == wait_for_result_batch(pending, expected_result) IN
         IF r = "again" THEN UNCHANGED <<pc, exit_code, raised, ret>>
         ELSE /\ ret' = r
              /\ Checked(r = "True", line, next)
    /\ UNCHANGED <<args, probe_vars, scan_vars, d>>

\* lines 146-149 and 152-157: where the script goes after a step
AfterConnect == IF args.connect_srst THEN "srst" ELSE IF args.tpwr THEN "tpwr" ELSE "scan"
AfterSrst == IF args.tpwr THEN "tpwr" ELSE "scan"
\* mutation: the transport is chosen by --swd, so no flag means JTAG
ScanCmd_BySwdFlag == IF args.swd THEN CmdSwdScan ELSE CmdJtagScan
ScanCmd == IF ~args.jtag THEN CmdSwdScan ELSE CmdJtagScan
\* mutation: the list action falls through to the attach
AfterScan_NoListExit == "attach"
\* lines 165-168
AfterScan == IF args.action = "list" THEN "exit" ELSE "attach"
\* lines 171-180
AfterAttach ==
    CASE args.action = "reset" -> "reset"
      [] args.action = "erase" -> "erase"
      [] OTHER -> "download"

\* line 143
Connect_Write == CallWrite("connect", CmdConnect)
Connect_Wait == CallWait("connect_rd", "connected", 143, AfterConnect)

\* a bare gdbmi.write(cmd): the write, then one read whose batch is dropped
BareWrite(at, cmd) ==
    /\ pc = at
    /\ Write(cmd)
    /\ Goto(at \o "_rd")
    /\ UNCHANGED <<args, probe_vars, ret, scan_vars, d>>

BareRead(at, next) ==
    /\ pc = at
    /\ Read
    /\ Goto(next)
    /\ UNCHANGED <<args, probe_vars, ret, scan_vars, d>>

\* lines 146-147
Srst_Write == BareWrite("srst", CmdSrst)
Srst_Read == BareRead("srst_rd", AfterSrst)
\* lines 148-149
Tpwr_Write == BareWrite("tpwr", CmdTpwr)
Tpwr_Read == BareRead("tpwr_rd", "scan")

\* lines 152-157: the scan command; its first batch goes to detect_targets
Scan_Write ==
    /\ pc = "scan"
    /\ Write(ScanCmd)
    /\ Goto("scan_rd")
    /\ UNCHANGED <<args, probe_vars, ret, scan_vars, d>>

\* mutation: the status of the ending record is not asserted
ScanStatusOk_Unasserted(status) == TRUE
\* line 65: the assertion on the record that ends detect_targets
ScanStatusOk(status) == status = "done"

\* the part of a batch detect_targets looks at: up to the first result record
RECURSIVE Taken(_)
Taken(res) ==
    IF res = <<>> THEN <<>>
    ELSE IF Head(res).type = "result" THEN <<Head(res)>>
    ELSE <<Head(res)>> \o Taken(Tail(res))

\* detect_targets, one pass of its while loop (lines 59-68), and on return
\* lines 158-166 of the script
Scan_Read ==
    /\ pc = "scan_rd"
    /\ Read
    /\ LET r == detect_targets_batch(pending, dt_targets) IN
         /\ dt_targets' = r.targets
         /\ scan_stream' = scan_stream \o
                SelectSeq(Taken(pending), LAMBDA m : m.type \in {"target", "result"})
         /\ IF r.status = None
            THEN UNCHANGED <<pc, exit_code, raised, targets, stdout>>
            ELSE IF ~ScanStatusOk(r.status)
            THEN Raise(65) /\ UNCHANGED <<targets, stdout>>
            ELSE /\ targets' = Present(r.targets)
                 /\ Checked(Len(r.targets) > 0, 159, AfterScan)
                 /\ stdout' = IF Len(r.targets) > 0 THEN stdout \o r.targets ELSE stdout
    /\ UNCHANGED <<args, probe_vars, ret, d>>

\* line 168
Attach_Write == CallWrite("attach", CmdAttach)
Attach_Wait == CallWait("attach_rd", "done", 168, AfterAttach)
\* line 172-173
Reset_Write == CallWrite("reset", CmdReset)
Reset_Wait == CallWait("reset_rd", "done", 172, "exit")
\* lines 176-178
Erase_Write == CallWrite("erase", CmdErase)
Erase_Wait == CallWait("erase_rd", "done", 177, "exit")

\* lines 182-186
Download_Write ==
    /\ pc = "download"
    /\ Write(CmdDownload)
    /\ d' = InitialDownload
    /\ Goto("download_rd")
    /\ UNCHANGED <<args, probe_vars, ret, scan_vars>>

\* lines 187-215, one pass of the while loop
Download_Read ==
    /\ pc = "download_rd"
    /\ Read
    /\ d' = download_batch(pending, d)
    /\ IF d'.raised # 0 THEN Raise(d'.raised)
       ELSE IF d'.downloading THEN UNCHANGED <<pc, exit_code, raised>>
       ELSE Goto("compare")
    /\ UNCHANGED <<args, probe_vars, ret, scan_vars>>

\* line 218
Compare_Write == CallWrite("compare", CmdCompare)
Compare_Wait == CallWait("compare_rd", "done", 218, "kill")
\* line 220, then the script ends
Kill_Write == CallWrite("kill", CmdKill)
Kill_Wait == CallWait("kill_rd", "done", 220, "exit")

\* ------------------------------------------------------------ specification
Script ==
    \/ CheckArgs \/ DetectProbes \/ Term \/ SelectPort \/ Debug \/ OpenGdbmi
    \/ Connect_Write \/ Connect_Wait
    \/ Srst_Write \/ Srst_Read \/ Tpwr_Write \/ Tpwr_Read
    \/ Scan_Write \/ Scan_Read
    \/ Attach_Write \/ Attach_Wait
    \/ Reset_Write \/ Reset_Wait
    \/ Erase_Write \/ Erase_Wait
    \/ Download_Write \/ Download_Read
    \/ Compare_Write \/ Compare_Wait
    \/ Kill_Write \/ Kill_Wait
    \/ Timeout

Debugger == GdbConsole \/ GdbTarget \/ GdbProgress \/ GdbResult

Next == Script \/ Debugger

Spec == Init /\ [][Next]_vars

\* the script alone takes its steps; nothing obliges the debugger to answer
FairSpec == Init /\ [][Next]_vars /\ WF_vars(Script)

\* ================================================================== claims
IsPrefix(a, b) == Len(a) <= Len(b) /\ SubSeq(b, 1, Len(a)) = a
Range(f) == {f[i] : i \in DOMAIN f}
HasResult(res) == \E i \in 1..Len(res) : res[i].type = "result"
\* the first result record of a batch
FirstResult(res) ==
    res[CHOOSE i \in 1..Len(res) :
            res[i].type = "result" /\ \A j \in 1..(i - 1) : res[j].type # "result"]
\* a step in which the script reads the reply stream
ReadStep == pending # <<>> /\ pending' = <<>>
Scripted == args.action \in {"list", "reset", "erase", "flash"}

\* C1: in scripted mode a command is written only when the result record of
\* every command written before it has been read: none is still unanswered
\* in the debugger and none lies unread in the reply stream.
C1_TurnTaking ==
    [][written' # written =>
          /\ inbox = <<>>
          /\ \A i \in 1..Len(pending) : pending[i].type # "result"]_vars

\* C2: the commands written are always a prefix of the sequence connect,
\* [connect_srst], [tpwr], one scan (jtag_scan with --jtag, else swdp_scan),
\* then per action: reset: attach, hard_srst; erase: attach, flash-erase;
\* flash: attach, download, compare-sections, kill; and a scripted run that
\* ends with exit code 0 has written exactly that sequence.
C2_Expected ==
    <<CmdConnect>>
    \o (IF args.connect_srst THEN <<CmdSrst>> ELSE <<>>)
    \o (IF args.tpwr THEN <<CmdTpwr>> ELSE <<>>)
    \o (IF args.jtag THEN <<CmdJtagScan>> ELSE <<CmdSwdScan>>)
    \o (CASE args.action = "reset" -> <<CmdAttach, CmdReset>>
          [] args.action = "erase" -> <<CmdAttach, CmdErase>>
          [] args.action = "flash" -> <<CmdAttach, CmdDownload, CmdCompare, CmdKill>>
          [] OTHER -> <<>>)

C2_CommandSequence ==
    /\ IsPrefix(written, C2_Expected)
    /\ (Scripted /\ pc = "exit" /\ exit_code = 0) => written = C2_Expected

C2_Witness ==
    /\ args.action = "flash" /\ args.connect_srst /\ args.tpwr /\ args.jtag
    /\ pc = "exit" /\ exit_code = 0
    /\ Len(written) = 8

\* C3: the list action never writes attach, erase, download, compare-sections,
\* reset or kill, and once its scan has returned at least one target the run
\* has printed exactly the parsed targets and ended with exit code 0.
C3_ListOnly ==
    args.action = "list" =>
        /\ Range(written) \cap {CmdAttach, CmdErase, CmdDownload, CmdCompare,
                                CmdReset, CmdKill} = {}
        /\ (targets # Absent /\ targets # Present(<<>>)) =>
               (pc = "exit" /\ exit_code = 0 /\ stdout = targets[1])

C3_Witness ==
    /\ args.action = "list"
    /\ pc = "exit" /\ exit_code = 0
    /\ Len(stdout) = 2 /\ stdout = targets[1]

\* C4: a read that takes a result record with a status other than the
\* expected one (connected for connect, done for scan, attach, reset, erase,
\* download, compare-sections and kill), or that ends the scan with no
\* target, ends the run with a non-zero exit code, and a run that has ended
\* writes nothing more.
C4_Steps == {"connect_rd", "scan_rd", "attach_rd", "reset_rd", "erase_rd",
             "download_rd", "compare_rd", "kill_rd"}
C4_ExpectedStatus(p) == IF p = "connect_rd" THEN "connected" ELSE "done"

C4_FailFast ==
    [][/\ (/\ pc \in C4_Steps
           /\ ReadStep
           /\ HasResult(pending)
           /\ FirstResult(pending).message # C4_ExpectedStatus(pc))
          => (pc' = "exit" /\ exit_code' > 0)
       /\ (targets = Absent /\ targets' = Present(<<>>))
          => (pc' = "exit" /\ exit_code' > 0)
       /\ (pc = "exit") => (written' = written)]_vars

C4_Witness ==
    /\ args.action = "erase"
    /\ pc = "exit" /\ exit_code = 1 /\ raised = 177
    /\ written[Len(written)] = CmdErase

\* C5: gdb_write_and_wait_for_result writes its command once when it is
\* entered and nothing while it waits; it returns in the read that takes the
\* first result record, with True exactly when that record's status is the
\* expected one (connected for connect, done otherwise); a read without a
\* result record leaves it waiting with nothing returned.
C5_Calls == {"connect_rd", "attach_rd", "reset_rd", "erase_rd", "compare_rd", "kill_rd"}
C5_Expected(p) == IF p = "connect_rd" THEN "connected" ELSE "done"

C5_WriteAndWait ==
    [][/\ (pc \notin C5_Calls /\ pc' \in C5_Calls)
          => (Len(written') = Len(written) + 1 /\ ret' = None)
       /\ (pc \in C5_Calls)
          => /\ written' = written
             /\ IF ReadStep /\ HasResult(pending)
                THEN /\ pc' # pc
                     /\ ret' = IF FirstResult(pending).message = C5_Expected(pc)
                               THEN "True" ELSE "False"
                ELSE /\ ret' = None
                     /\ (pc' = pc \/ raised' = -1)]_vars

C5_Witness ==
    /\ ret = "False"
    /\ pc = "exit" /\ raised = 143
    /\ written = <<CmdConnect>>

\* C6: when the result record that ends target parsing has a status other
\* than done, the run has ended with a non-zero exit code, however many
\* target messages came before it; the script's target list was never
\* assigned and no attach was written.
C6_ScanError ==
    (/\ scan_stream # <<>>
     /\ Last(scan_stream).type = "result"
     /\ Last(scan_stream).message # "done")
    => /\ pc = "exit" /\ exit_code > 0
       /\ targets = Absent
       /\ CmdAttach \notin Range(written)

C6_Witness ==
    /\ Len(scan_stream) = 3
    /\ Last(scan_stream) = ResultMsg("error")
    /\ Len(dt_targets) = 2
    /\ pc = "exit" /\ raised = 65

\* C7: the list detect_targets builds, and returns, is in arrival order the
\* captured descriptions of the target messages it took from the stream,
\* over all batches, that match the pattern; other messages add nothing.
\* Targets "1  STM32F4\n", "2  STM32F1\n" and result done give
\* [STM32F4, STM32F1].
C7_Descriptions(stream) ==
    LET ms == SelectSeq(stream, LAMBDA m : m.type = "target"
                                           /\ target_match(m.payload).matched)
    IN  [i \in 1..Len(ms) |-> target_match(ms[i].payload).group2]

C7_Example ==
    <<TargetMsg(<<"1", " ", " ", "S", "T", "M", "3", "2", "F", "4", "\\", "n">>),
      TargetMsg(<<"2", " ", " ", "S", "T", "M", "3", "2", "F", "1", "\\", "n">>),
      ResultMsg("done")>>

C7_ExampleTargets == << <<"S", "T", "M", "3", "2", "F", "4">>,
                        <<"S", "T", "M", "3", "2", "F", "1">> >>

C7_TargetList ==
    /\ dt_targets = C7_Descriptions(scan_stream)
    /\ targets # Absent => targets[1] = dt_targets
    /\ scan_stream = C7_Example => targets = Present(C7_ExampleTargets)

C7_Witness ==
    /\ scan_stream = C7_Example
    /\ targets = Present(C7_ExampleTargets)

C9_WaitEnds == (pc \in ReadPcs) ~> (pc \notin ReadPcs)

\* C10: the total-size banner has been printed exactly once as soon as a
\* progress event with a known total size was read, and not before: after
\* each read of the download loop the number of banners is 1 when it was 1
\* before or the batch holds such an event, and 0 otherwise.
C10_Banners(out) == Cardinality({i \in 1..Len(out) : out[i].kind = "total"})
C10_KnownTotal(res) ==
    \E i \in 1..Len(Taken(res)) :
        /\ res[i].type = "output"
        /\ download_match(res[i].payload).matched
        /\ download_match(res[i].payload).group[5] # Absent

C10_BannerOnce ==
    [][(pc = "download_rd" /\ ReadStep)
       => C10_Banners(d'.out) =
            IF C10_Banners(d.out) = 1 \/ C10_KnownTotal(pending) THEN 1 ELSE 0]_vars

\* ------------------------------------------- the download loop, per message
\* a step in which the download loop reads a batch
DownloadRead == pc = "download_rd" /\ ReadStep
\* the local state before and after the i-th message of the batch
D_Before(i) == download_batch(SubSeq(pending, 1, i - 1), d)
D_After(i) == download_batch(SubSeq(pending, 1, i), d)
D_Group(i) == download_match(pending[i].payload).group
\* the progress events of the batch the loop gets to
D_Events ==
    {i \in 1..Len(Taken(pending)) :
        /\ pending[i].type = "output"
        /\ download_match(pending[i].payload).matched
        /\ D_Before(i).raised = 0}
\* bars drawn and not yet finished
ActiveBars(err) ==
    Cardinality({i \in 1..Len(err) : err[i] = "start"})
    - Cardinality({i \in 1..Len(err) : err[i] = "finish"})

\* C11: a progress event without a section name or without a section-size
\* leaves the displayed section, the bar and its maximum as they were, starts
\* and finishes no bar and does not abort the run; an event without
\* section-sent does not move the bar it leaves in place.  (Events that abort
\* at the total-size banner, line 203, or at the advance of the bar, line 213,
\* are left aside.)
C11_FieldAbsent ==
    [][DownloadRead =>
         \A i \in D_Events :
            LET b == D_Before(i)
                a == D_After(i)
                gr == D_Group(i)
            IN  a.raised \notin {203, 213} =>
                  /\ (gr[1] = Absent \/ gr[3] = Absent) =>
                        /\ a.raised = 0
                        /\ a.current_sec = b.current_sec
                        /\ a.err = b.err
                        /\ a.pbar.maxval = b.pbar.maxval
                        /\ a.pbar.start_time = b.pbar.start_time
                  /\ gr[2] = Absent =>
                        (a.err = b.err => a.pbar.currval = b.pbar.currval)]_vars

\* C12: an event that names a section other than the displayed one and
\* carries its size finishes the active bar, if there is one, then starts a
\* bar whose maximum is that size, and the displayed section becomes the
\* named one; an event for the displayed section whose section-sent is not
\* below the bar's position moves the bar to it, upward, on the same bar;
\* never is more than one bar active.
C12_SectionChange ==
    [][DownloadRead =>
         /\ \A i \in 1..Len(pending) : ActiveBars(D_After(i).err) \in {0, 1}
         /\ \A i \in D_Events :
              LET b == D_Before(i)
                  a == D_After(i)
                  gr == D_Group(i)
              IN  /\ (/\ gr[1] # Absent
                      /\ gr[1] # b.current_sec
                      /\ ~IntRaises(gr[3])
                      /\ a.raised # 203)
                     => /\ a.err = (IF ActiveBars(b.err) = 1
                                    THEN Append(b.err, "finish") ELSE b.err)
                                   \o <<"start">>
                        /\ a.current_sec = gr[1]
                        /\ a.pbar.maxval = int(gr[3])
                        /\ a.pbar.start_time /\ ~a.pbar.finished
                  /\ (/\ gr[1] = b.current_sec
                      /\ ~IntRaises(gr[2])
                      /\ a.raised = 0
                      /\ int(gr[2]) >= b.pbar.currval)
                     => /\ a.err = b.err
                        /\ a.pbar.currval = int(gr[2])
                        /\ a.pbar.currval >= b.pbar.currval
                        /\ a.pbar.maxval = b.pbar.maxval]_vars

C12_Witness ==
    /\ pc = "download_rd"
    /\ d.err = <<"start", "finish", "start">>
    /\ d.current_sec = Present(<<".data">>)
    /\ d.pbar.maxval = 4

\* C13: the read that takes the first result record of the download loop,
\* when the status is done, finishes the active bar if there is one, prints
\* the completion notice, leaves the messages behind the record unprocessed
\* and goes on to the compare; with any other status it ends the run with a
\* non-zero exit code.  The command written after the download is
\* compare-sections, and after a failed download neither compare-sections
\* nor kill has been written.
C13_Later == {CmdCompare, CmdKill}

C13_DownloadResult ==
    [][/\ (/\ DownloadRead
           /\ HasResult(pending)
           /\ D_Before(Len(Taken(pending))).raised = 0)
          => LET b == D_Before(Len(Taken(pending))) IN
             IF FirstResult(pending).message = "done"
             THEN /\ d'.out = Append(b.out, Line("finished", Absent))
                  /\ d'.err = IF ActiveBars(b.err) = 1
                              THEN Append(b.err, "finish") ELSE b.err
                  /\ ActiveBars(d'.err) = 0
                  /\ d'.current_sec = b.current_sec
                  /\ d'.first = b.first
                  /\ pc' = "compare" /\ raised' = 0
             ELSE /\ pc' = "exit" /\ exit_code' > 0
                  /\ d'.raised = 191
       /\ (written' # written /\ written # <<>> /\ Last(written) = CmdDownload)
          => (written' = Append(written, CmdCompare)
              /\ d.out # <<>> /\ Last(d.out).kind = "finished")
       /\ d'.raised = 191 => Range(written') \cap C13_Later = {}]_vars

C13_Witness ==
    /\ pc = "compare"
    /\ d.err = <<"start", "finish">>
    /\ Last(d.out).kind = "finished"
    /\ ~d.downloading

\* C20: an event that carries section-sent and gets to the advance of the
\* bar (line 212) finds a bar active, the value within the bar's maximum,
\* and leaves the bar at that value without aborting the run.
C20_AdvanceWhenActive ==
    [][DownloadRead =>
         \A i \in D_Events :
            LET a == D_After(i)
                gr == D_Group(i)
            IN  (~IntRaises(gr[2]) /\ a.raised \notin {203, 207})
                => /\ ActiveBars(a.err) = 1
                   /\ int(gr[2]) <= a.pbar.maxval
                   /\ a.pbar.currval = int(gr[2])
                   /\ a.raised = 0]_vars

\* ---------------------------------------------------------- port selection
\* the script is past the selection of the port
Selected == pc \notin {"start", "detect", "select"}
\* the list the action selects from: UART interfaces for term, GDB
\* interfaces for every other action
Candidates == IF args.action = "term" THEN u ELSE g

\* C14: with --serial and without --port the selected path is the device of
\* the first candidate whose serial number contains the given text; when no
\* candidate does, the run has ended with a non-zero exit code, no path
\* selected and no program launched.
C14_Matches ==
    {i \in 1..Len(Candidates) :
        IsSubstring(args.serial[1], Candidates[i].serial_number)}

C15_PortVerbatim ==
    (Selected /\ g # <<>> /\ ~Rejected(args))
    => /\ args.port # Absent => port = args.port
       /\ (AutoDetect(args) /\ Candidates # <<>>)
          => port = Present(Candidates[1].device)

\* C16: once the ports are enumerated, the GDB list holds, in enumeration
\* order, the probes (vendor id 0x1D50, product id 0x6018 or 0x6017) whose
\* label or path matches or whose location ends in '0', the UART list holds
\* the other probes in enumeration order, and no other device is in a list.
C16_Control(p) ==
    \/ p.interface = "Black Magic GDB Server"
    \/ IsFirstSubInterfacePath(p.device)
    \/ (p.location # <<>> /\ Last(p.location) = "0")

C16_Classified ==
    enumerated
    => /\ g = SelectSeq(comports, LAMBDA p : p.vid = VID /\ p.pid \in {PID1, PID2}
                                             /\ C16_Control(p))
       /\ u = SelectSeq(comports, LAMBDA p : p.vid = VID /\ p.pid \in {PID1, PID2}
                                             /\ ~C16_Control(p))

\* C17: a run that has ended has exit code 0 exactly when its action ran to
\* completion, and a non-zero exit code whenever no probe was found,
\* exclusive options were both given, no target was found, a waited-for
\* reply had an unexpected status or the serial number matched no candidate.
C17_Violation ==
    \/ Rejected(args)
    \/ (enumerated /\ g = <<>>)
    \/ targets = Present(<<>>)
    \/ ret = "False"
    \/ d.raised = 191
    \/ (scan_stream # <<>> /\ Last(scan_stream).type = "result"
                           /\ Last(scan_stream).message # "done")
    \/ (args.serial # Absent /\ args.port = Absent /\ Selected /\ C14_Matches = {})

C17_Completed ==
    CASE args.action = "list" ->
             targets # Absent /\ targets # Present(<<>>) /\ stdout = targets[1]
      [] args.action \in {"reset", "erase", "flash"} ->
             written = C2_Expected /\ ret = "True"
      [] args.action = "debug" -> Len(launched) = 1 /\ launched[1].prog = "gdb"
      [] args.action = "term" -> Len(launched) = 1 /\ launched[1].prog = "term"

C18_Has(argv, cmd) == \E i \in 1..Len(argv) : argv[i] = <<cmd>>

C18_Debug ==
    args.action = "debug"
    => /\ written = <<>> /\ inbox = <<>>
       /\ Len(launched) <= 1
       /\ (pc = "exit" /\ exit_code = 0) => Len(launched) = 1
       /\ launched # <<>>
          => /\ launched[1].prog = "gdb"
             /\ launched[1].status \in ExitStatuses
             /\ pc = "exit" /\ exit_code = 0
             /\ launched[1].argv[1] = <<"target extended-remote">> \o port[1]
             /\ C18_Has(launched[1].argv, CmdTpwr) <=> args.tpwr
             /\ C18_Has(launched[1].argv, CmdSrst) <=> args.connect_srst
             /\ C18_Has(launched[1].argv, CmdJtagScan) <=> args.jtag
             /\ C18_Has(launched[1].argv, CmdSwdScan) <=> ~args.jtag

C18_Witness ==
    /\ args.action = "debug" /\ args.jtag /\ args.tpwr
    /\ pc = "exit" /\ exit_code = 0
    /\ launched # <<>> /\ launched[1].status = 1

\* C19: the read that ends target parsing with status done takes the result
\* record of the scan command, whatever --connect-srst and --tpwr are: the
\* debugger has answered every command written, and the batch holds no
\* result record of an earlier command (so the targets the scan emitted
\* before its record are in the list).
C19_ScanResult ==
    [][(/\ pc = "scan_rd" /\ ReadStep /\ HasResult(pending)
        /\ FirstResult(pending).message = "done")
       => /\ inbox = <<>>
          /\ Cardinality({i \in 1..Len(pending) : pending[i].type = "result"}) = 1]_vars

====
